---------------------------- MODULE Spec2Model ----------------------------
(***************************************************************************)
(* Light-source localisation pipeline of ESP32-CAM-EYES.ino:               *)
(* find_light_source (binarisation, two-pass connected-component           *)
(* labelling over a union-find forest, moment aggregation, candidate       *)
(* selection, normalisation) and its caller loop().                        *)
(*                                                                         *)
(* The sketch holds two listings of the program (lines 1-478 and 479-863); *)
(* find_light_source, dsu_init, dsu_find and dsu_unite are the same in     *)
(* both, and the definitions below follow the first listing; loop()        *)
(* differs between the listings in where it returns the frame buffer, and  *)
(* the variable listing says which of the two is running.                  *)
(*                                                                         *)
(* Conventions of the model                                                *)
(*  - a pixel is the uint16_t value pixels[i]; the ESP32 is little-endian, *)
(*    so the byte at the lower address is the value's low byte;            *)
(*  - float values are modelled by exact rationals: result.x and result.y  *)
(*    are records [num, den] and the circularity test is decided on        *)
(*    integers (see CircularEnough);                                       *)
(*  - MAX_LABELS is scaled down from 256 so that the frames of the model   *)
(*    can exhaust the label table.                                         *)
(***************************************************************************)
EXTENDS Integers, Sequences, FiniteSets, TLC

(* ------------------------------ bounds --------------------------------- *)

\* Frames have width * height <= MaxPixels (every width >= 1, height >= 1).
MaxPixels == 10

\* Frames of a format other than RGB565 have width * height <= MaxOtherPixels.
MaxOtherPixels == 3

\* Capacity of the label table (256 in the sketch, scaled down).
MAX_LABELS == 5

\* Frames that hold a single filled square have width, height <= MaxSide.
MaxSide == 5

(* --------------------------- program constants ------------------------- *)

FOREGROUND == 65535

BRIGHT_THRESHOLD == 230

min_blob_size == 3

\* config.fb_count: the camera driver owns one frame buffer.
fb_count == 1

Formats == {"RGB565", "JPEG"}

\* Pixel values the captured frames are drawn from: 0x5DEF decodes to
\* r = g = b = 232 (just above the threshold), 0xFFE7 to r = 224, g = 252,
\* b = 248 (red just below it).
Palette == {24047, 65511}

(* ------------------------------- state --------------------------------- *)

VARIABLES
  listing,     \* which listing of the sketch runs: 1 or 2
  fb_held,     \* frame buffers loop() got and has not handed back
  pc,          \* position of the program
  caller,      \* "loop" or "direct": who called find_light_source
  fmt,         \* fb->format
  width,       \* fb->width
  height,      \* fb->height
  frame0,      \* fb->buf as delivered by the camera (kept for reference)
  pixels,      \* fb->buf viewed as uint16_t[], rewritten in place
  parent,      \* the global union-find forest
  united,      \* the pairs dsu_unite was called with since dsu_init
  next_label,  \* local of find_light_source
  i,           \* scan index y * width + x of the running pass
  blobs,       \* local blob_info_t blobs[MAX_LABELS]
  result,      \* the caller's light_source_result_t
  ret,         \* return value of find_light_source
  oob          \* an access to parent[] or blobs[] outside 0..MAX_LABELS-1

vars == << listing, fb_held, pc, caller, fmt, width, height, frame0, pixels, parent, united,
           next_label, i, blobs, result, ret, oob >>

frameVars == << fmt, width, height, frame0 >>

loopVars == << listing, fb_held >>

Labels == 0 .. (MAX_LABELS - 1)

Rat(n, d) == [num |-> n, den |-> d]

\* light_source_result_t result = {0}
ZeroResult == [x |-> Rat(0, 1), y |-> Rat(0, 1), pixel_count |-> 0]

\* What a result struct may still hold from an earlier use.
StaleResult == [x |-> Rat(1, 2), y |-> Rat(-1, 2), pixel_count |-> 7]

ZeroBlob == [id |-> 0, pixel_count |-> 0, sum_x |-> 0, sum_y |-> 0,
             sum_x2 |-> 0, sum_y2 |-> 0, sum_xy |-> 0]

\* A local that is out of scope.
NoBlobs == << >>

Dims(maxPix) ==
  { d \in (1 .. maxPix) \X (1 .. maxPix) : d[1] * d[2] <= maxPix }

Buffers(n) == [0 .. (n - 1) -> Palette]

(* ------------------------- union-find (DSU) ---------------------------- *)

\* Mutant: the forest of the previous call is kept.
dsu_init_stale == parent

dsu_init == [k \in Labels |-> k]

\* Mutant: path compression writes the label itself instead of the root.
RECURSIVE dsu_find_detach(_, _)
dsu_find_detach(p, k) ==
  IF p[k] = k
    THEN << k, p >>
    ELSE LET r == dsu_find_detach(p, p[k])
         IN  << r[1], [r[2] EXCEPT ![k] = k] >>

\* <<root, parent after path compression>>
RECURSIVE dsu_find(_, _)
dsu_find(p, k) ==
  IF p[k] = k
    THEN << k, p >>
    ELSE LET r == dsu_find(p, p[k])
         IN  << r[1], [r[2] EXCEPT ![k] = r[1]] >>

\* Mutant: the larger root becomes the parent.
dsu_unite_larger_parent(p, a, b) ==
  LET fi == dsu_find(p, a)
      fj == dsu_find(fi[2], b)
  IN  IF fi[1] = fj[1]
        THEN fj[2]
        ELSE IF fi[1] < fj[1]
          THEN [fj[2] EXCEPT ![fi[1]] = fj[1]]
          ELSE [fj[2] EXCEPT ![fj[1]] = fi[1]]

\* Mutant: the else branch (root_i > root_j) is missing.
dsu_unite_one_way(p, a, b) ==
  LET fi == dsu_find(p, a)
      fj == dsu_find(fi[2], b)
  IN  IF fi[1] < fj[1] THEN [fj[2] EXCEPT ![fj[1]] = fi[1]] ELSE fj[2]

dsu_unite(p, a, b) ==
  LET fi == dsu_find(p, a)
      fj == dsu_find(fi[2], b)
      root_i == fi[1]
      root_j == fj[1]
      q == fj[2]
  IN  IF root_i # root_j
        THEN IF root_i < root_j
               THEN [q EXCEPT ![root_j] = root_i]
               ELSE [q EXCEPT ![root_i] = root_j]
        ELSE q

(* --------------------------- binarisation ------------------------------ *)

RECURSIVE BitAnd(_, _)
BitAnd(a, b) ==
  IF a = 0 \/ b = 0
    THEN 0
    ELSE (a % 2) * (b % 2) + 2 * BitAnd(a \div 2, b \div 2)

RECURSIVE BitOr(_, _)
BitOr(a, b) ==
  IF a = 0 /\ b = 0
    THEN 0
    ELSE (IF (a % 2) + (b % 2) > 0 THEN 1 ELSE 0)
         + 2 * BitOr(a \div 2, b \div 2)

Shl(a, n) == a * (2 ^ n)

Shr(a, n) == a \div (2 ^ n)

UInt8(a) == a % 256

low_byte(v) == v % 256

high_byte(v) == v \div 256

channel_r(v) == UInt8(BitAnd(low_byte(v), 248))

\* Mutant: the low green bits are shifted to the wrong place.
channel_g_misaligned(v) ==
  UInt8(BitOr(Shl(BitAnd(low_byte(v), 7), 5), Shr(BitAnd(high_byte(v), 224), 5)))

channel_g(v) ==
  UInt8(BitOr(Shl(BitAnd(low_byte(v), 7), 5), Shr(BitAnd(high_byte(v), 224), 3)))

channel_b(v) == UInt8(Shl(BitAnd(high_byte(v), 31), 3))

Binarize(v) ==
  IF channel_r(v) > BRIGHT_THRESHOLD /\ channel_g(v) > BRIGHT_THRESHOLD
     /\ channel_b(v) > BRIGHT_THRESHOLD
    THEN FOREGROUND
    ELSE 0

(* ------------------------ first pass: labelling ------------------------ *)

InRange(k) == k \in Labels

Min2(a, b) == IF a < b THEN a ELSE b

top_label(px, w, k) == IF (k \div w) > 0 THEN px[k - w] ELSE 0

left_label(px, w, k) == IF (k % w) > 0 THEN px[k - 1] ELSE 0

\* Mutant: the capacity test admits one label too many.
NewBlob_one_too_many(nl) ==
  IF nl <= MAX_LABELS
    THEN << nl % 65536, nl + 1 >>
    ELSE << 0, nl >>

\* A foreground pixel with no labelled neighbour: a fresh label while the
\* table has room, background otherwise.  <<pixel value, next_label>>
NewBlob(nl) ==
  IF nl < MAX_LABELS
    THEN << nl % 65536, nl + 1 >>
    ELSE << 0, nl >>

\* One iteration of the first pass at index k:
\* [px, par, nl, un, bad] with bad = an index outside parent[] was used.
first_pass_pixel(px, par, nl, un, w, k) ==
  LET t == top_label(px, w, k)
      l == left_label(px, w, k)
      same == [px |-> px, par |-> par, nl |-> nl, un |-> un, bad |-> FALSE]
  IN  IF px[k] # FOREGROUND
        THEN same
        ELSE IF t = 0 /\ l = 0
          THEN LET nb == NewBlob(nl)
               IN  [same EXCEPT !.px = [px EXCEPT ![k] = nb[1]], !.nl = nb[2]]
        ELSE IF t > 0 /\ l = 0
          THEN [same EXCEPT !.px = [px EXCEPT ![k] = t]]
        ELSE IF t = 0 /\ l > 0
          THEN [same EXCEPT !.px = [px EXCEPT ![k] = l]]
        ELSE IF t # l /\ ~(InRange(t) /\ InRange(l))
          THEN [same EXCEPT !.bad = TRUE]
        ELSE [same EXCEPT
                !.px  = [px EXCEPT ![k] = Min2(t, l)],
                !.par = IF t # l THEN dsu_unite(par, t, l) ELSE par,
                !.un  = IF t # l THEN un \cup {{t, l}} ELSE un]

(* ---------------------- second pass: aggregation ----------------------- *)

\* Mutant: sum_xy accumulates x * x.
AddPixel_xy_as_xx(b, lab, x, y) ==
  [id          |-> IF b.id = 0 THEN lab ELSE b.id,
   pixel_count |-> b.pixel_count + 1,
   sum_x       |-> b.sum_x + x,
   sum_y       |-> b.sum_y + y,
   sum_x2      |-> b.sum_x2 + x * x,
   sum_y2      |-> b.sum_y2 + y * y,
   sum_xy      |-> b.sum_xy + x * x]

\* The sums are uint32_t; over a whole 160 x 120 frame the largest, sum_x2,
\* stays below 2^28, so none of them wraps.
AddPixel(b, lab, x, y) ==
  [id          |-> IF b.id = 0 THEN lab ELSE b.id,
   pixel_count |-> b.pixel_count + 1,
   sum_x       |-> b.sum_x + x,
   sum_y       |-> b.sum_y + y,
   sum_x2      |-> b.sum_x2 + x * x,
   sum_y2      |-> b.sum_y2 + y * y,
   sum_xy      |-> b.sum_xy + x * y]

\* One iteration of the second pass at index k: [px, par, bl, bad].
second_pass_pixel(px, par, bl, w, k) ==
  LET same == [px |-> px, par |-> par, bl |-> bl, bad |-> FALSE]
  IN  IF px[k] = 0
        THEN same
        ELSE IF ~InRange(px[k])
          THEN [same EXCEPT !.bad = TRUE]
        ELSE LET f == dsu_find(par, px[k])
                 final_label == f[1]
             IN  [same EXCEPT
                    !.px  = [px EXCEPT ![k] = final_label],
                    !.par = f[2],
                    !.bl  = [bl EXCEPT ![final_label] =
                               AddPixel(bl[final_label], final_label,
                                        k % w, k \div w)]]

(* ------------------------ candidate selection -------------------------- *)

\* Mutant: the shape filter is missing, every blob is circular enough.
CircularEnough_any_shape(b) == b.pixel_count > 0

\* circularity >= min_circularity (0.5f), decided exactly.  With
\* N = pixel_count the code's moments are mu = M / N for
\*   Mxx = N*sum_x2 - sum_x^2, Myy = N*sum_y2 - sum_y^2,
\*   Mxy = N*sum_xy - sum_x*sum_y,
\* so with A = Mxx + Myy and B = sqrt(B2), B2 = (Mxx - Myy)^2 + 4*Mxy^2:
\*   lambda_max > 0                       <=>  A + B > 0
\*   sqrt(lambda_min / lambda_max) >= 1/2 <=>  4*(A - B) >= A + B
\*                                        <=>  3*A >= 5*B.
CircularEnough(b) ==
  LET N   == b.pixel_count
      Mxx == N * b.sum_x2 - b.sum_x * b.sum_x
      Myy == N * b.sum_y2 - b.sum_y * b.sum_y
      Mxy == N * b.sum_xy - b.sum_x * b.sum_y
      A   == Mxx + Myy
      B2  == (Mxx - Myy) * (Mxx - Myy) + 4 * Mxy * Mxy
  IN  /\ (A > 0 \/ B2 > A * A)
      /\ A >= 0
      /\ 9 * A * A >= 25 * B2

Accepted(b) ==
  b.id # 0 /\ b.pixel_count >= min_blob_size /\ CircularEnough(b)

\* Mutant: the comparison with the threshold is reversed.
CircularAtLeast_reversed(b, tn, td) ==
  LET N   == b.pixel_count
      Mxx == N * b.sum_x2 - b.sum_x * b.sum_x
      Myy == N * b.sum_y2 - b.sum_y * b.sum_y
      Mxy == N * b.sum_xy - b.sum_x * b.sum_y
      A   == Mxx + Myy
      B2  == (Mxx - Myy) * (Mxx - Myy) + 4 * Mxy * Mxy
      P   == td * td - tn * tn
      Q   == td * td + tn * tn
  IN  IF A > 0 \/ B2 > A * A
        THEN P * A <= 0 \/ P * P * A * A <= Q * Q * B2
        ELSE tn >= 0

\* The shape filter with min_circularity = tn / td (td > 0) in place of
\* 0.5f: circularity is sqrt(lambda_min / lambda_max) when lambda_max > 0
\* and 0 otherwise, so with A, B2 as in CircularEnough
\*   circularity >= tn/td  <=>  (td^2 - tn^2) * A >= (td^2 + tn^2) * B
\* in the first case and 0 >= tn in the second.
CircularAtLeast(b, tn, td) ==
  LET N   == b.pixel_count
      Mxx == N * b.sum_x2 - b.sum_x * b.sum_x
      Myy == N * b.sum_y2 - b.sum_y * b.sum_y
      Mxy == N * b.sum_xy - b.sum_x * b.sum_y
      A   == Mxx + Myy
      B2  == (Mxx - Myy) * (Mxx - Myy) + 4 * Mxy * Mxy
      P   == td * td - tn * tn
      Q   == td * td + tn * tn
  IN  IF A > 0 \/ B2 > A * A
        THEN IF tn <= 0
               THEN A >= 0
               ELSE P * A >= 0 /\ P * P * A * A >= Q * Q * B2
        ELSE tn <= 0

\* The selector's filters with the circularity threshold t = <<tn, td>>.
AcceptedAt(b, t) ==
  b.id # 0 /\ b.pixel_count >= min_blob_size /\ CircularAtLeast(b, t[1], t[2])

\* Mutant: a later blob of the same size replaces the best one.
LargerOrEqual(count, max_pixel_count) == count >= max_pixel_count

Larger(count, max_pixel_count) == count > max_pixel_count

\* for (int i = 1; i < next_label; i++): <<best_blob_index, max_pixel_count>>
RECURSIVE best_blob(_, _, _, _, _)
best_blob(bl, k, nl, best, maxc) ==
  IF k >= nl
    THEN << best, maxc >>
    ELSE IF Accepted(bl[k]) /\ Larger(bl[k].pixel_count, maxc)
      THEN best_blob(bl, k + 1, nl, k, bl[k].pixel_count)
      ELSE best_blob(bl, k + 1, nl, best, maxc)

\* Mutant: the offset of -1 is missing.
Normalize_no_offset(res, size) == Rat(2 * res, size)

Normalize(res, size) == Rat(2 * res - size, size)

\* Mutant: the not-found branch returns -1 without writing the result.
Finalize_no_sentinel(bl, nl, w, h) ==
  LET best == best_blob(bl, 1, nl, -1, 0)[1]
  IN  IF best = -1
        THEN [result |-> result, ret |-> -1]
        ELSE LET bb == bl[best]
             IN  [result |-> [x |-> Normalize(bb.sum_x \div bb.pixel_count, w),
                              y |-> Normalize(bb.sum_y \div bb.pixel_count, h),
                              pixel_count |-> bb.pixel_count],
                  ret |-> 0]

\* Mutant: the integer centroid is rounded up.
Finalize_ceiling(bl, nl, w, h) ==
  LET best == best_blob(bl, 1, nl, -1, 0)[1]
  IN  IF best = -1
        THEN [result |-> ZeroResult, ret |-> -1]
        ELSE LET bb == bl[best]
                 N == bb.pixel_count
             IN  [result |-> [x |-> Normalize((bb.sum_x + N - 1) \div N, w),
                              y |-> Normalize((bb.sum_y + N - 1) \div N, h),
                              pixel_count |-> N],
                  ret |-> 0]

\* Mutant: the integer centroid is rounded to nearest instead of truncated.
Finalize_rounded(bl, nl, w, h) ==
  LET best == best_blob(bl, 1, nl, -1, 0)[1]
  IN  IF best = -1
        THEN [result |-> ZeroResult, ret |-> -1]
        ELSE LET bb == bl[best]
                 N == bb.pixel_count
                 rx == (2 * bb.sum_x + N) \div (2 * N)
                 ry == (2 * bb.sum_y + N) \div (2 * N)
             IN  [result |-> [x |-> Normalize(rx, w),
                              y |-> Normalize(ry, h),
                              pixel_count |-> N],
                  ret |-> 0]

\* Lines 297-367: [result, ret] for the aggregated blobs.
Finalize(bl, nl, w, h) ==
  LET best == best_blob(bl, 1, nl, -1, 0)[1]
  IN  IF best = -1
        THEN [result |-> ZeroResult, ret |-> -1]
        ELSE LET bb == bl[best]
                 res_x == bb.sum_x \div bb.pixel_count
                 res_y == bb.sum_y \div bb.pixel_count
             IN  [result |-> [x |-> Normalize(res_x, w),
                              y |-> Normalize(res_y, h),
                              pixel_count |-> bb.pixel_count],
                  ret |-> 0]

(* ------------------------------ actions -------------------------------- *)

EmptyBuf == [k \in {} |-> 0]

\* int parent[MAX_LABELS]: a global, zero before the first dsu_init.
Init ==
  /\ listing = 1
  /\ fb_held = 0
  /\ pc = "idle"
  /\ caller = "loop"
  /\ fmt = "RGB565"
  /\ width = 0
  /\ height = 0
  /\ frame0 = EmptyBuf
  /\ pixels = EmptyBuf
  /\ parent = [k \in Labels |-> 0]
  /\ united = {}
  /\ next_label = 0
  /\ i = 0
  /\ blobs = NoBlobs
  /\ result = ZeroResult
  /\ ret = 0
  /\ oob = FALSE

Capture(f, d, b) ==
  /\ fmt' = f
  /\ width' = d[1]
  /\ height' = d[2]
  /\ frame0' = b
  /\ pixels' = b

FramesOf(f) == Dims(IF f = "RGB565" THEN MaxPixels ELSE MaxOtherPixels)

\* loop(): esp_camera_fb_get, result = {0}, and the format check that
\* decides whether find_light_source is called.
loop_capture ==
  /\ pc = "idle"
  /\ fb_held < fb_count
  /\ fb_held' = fb_held + 1
  /\ listing' = listing
  /\ \E f \in Formats : \E d \in FramesOf(f) : \E b \in Buffers(d[1] * d[2]) :
       /\ Capture(f, d, b)
       /\ pc' = IF f = "RGB565" THEN "entry" ELSE "skipped"
  /\ caller' = "loop"
  /\ result' = ZeroResult
  /\ UNCHANGED << parent, united, next_label, i, blobs, ret, oob >>

\* loop(): esp_camera_fb_get returns NULL ("Camera capture failed"), which
\* it does on a camera fault and when no frame buffer is free.
loop_capture_failed ==
  /\ pc = "idle"
  /\ pc' = "failed"
  /\ caller' = "loop"
  /\ result' = ZeroResult
  /\ UNCHANGED << loopVars, frameVars, pixels, parent, united, next_label, i,
                  blobs, ret, oob >>

\* find_light_source called by any other caller, with a frame of any format
\* and a result struct that still holds an earlier value.
direct_call ==
  /\ pc = "idle"
  /\ \E f \in Formats : \E d \in FramesOf(f) : \E b \in Buffers(d[1] * d[2]) :
       Capture(f, d, b)
  /\ pc' = "entry"
  /\ caller' = "direct"
  /\ result' = StaleResult
  /\ UNCHANGED << loopVars, parent, united, next_label, i, blobs, ret, oob >>

\* find_light_source called with an RGB565 frame of no pixels (width or
\* height 0).
direct_call_empty ==
  /\ pc = "idle"
  /\ \E d \in { << 0, 0 >>, << 0, 1 >>, << 1, 0 >> } :
       Capture("RGB565", d, EmptyBuf)
  /\ pc' = "entry"
  /\ caller' = "direct"
  /\ result' = StaleResult
  /\ UNCHANGED << loopVars, parent, united, next_label, i, blobs, ret, oob >>

\* find_light_source called with fb = NULL: line 203 reads fb->format
\* through the null pointer, a load from an unmapped address, which the
\* ESP32 answers with a LoadProhibited panic.
direct_call_null ==
  /\ pc = "idle"
  /\ pc' = "fault"
  /\ caller' = "direct"
  /\ result' = StaleResult
  /\ UNCHANGED << loopVars, frameVars, pixels, parent, united, next_label, i,
                  blobs, ret, oob >>

\* Mutant: the format guard is missing.
fls_entry_no_guard ==
  /\ pc = "entry"
  /\ pixels' = [k \in DOMAIN pixels |-> Binarize(pixels[k])]
  /\ parent' = dsu_init
  /\ united' = {}
  /\ next_label' = 1
  /\ i' = 0
  /\ pc' = "pass1"
  /\ UNCHANGED << loopVars, caller, frameVars, blobs, result, ret, oob >>

\* find_light_source, lines 202-243: the format guard, the binarisation loop
\* and the initialisation of the first pass.
fls_entry ==
  /\ pc = "entry"
  /\ IF fmt # "RGB565"
       THEN /\ ret' = -1
            /\ pc' = "done"
            /\ UNCHANGED << pixels, parent, united, next_label, i >>
       ELSE /\ pixels' = [k \in DOMAIN pixels |-> Binarize(pixels[k])]
            /\ parent' = dsu_init
            /\ united' = {}
            /\ next_label' = 1
            /\ i' = 0
            /\ pc' = "pass1"
            /\ ret' = ret
  /\ UNCHANGED << loopVars, caller, frameVars, blobs, result, oob >>

\* One iteration of the first pass (lines 244-272).
first_pass_step ==
  /\ pc = "pass1"
  /\ i < width * height
  /\ LET s == first_pass_pixel(pixels, parent, next_label, united, width, i)
     IN  IF s.bad
           THEN /\ oob' = TRUE
                /\ pc' = "crash"
                /\ UNCHANGED << pixels, parent, next_label, united, i >>
           ELSE /\ pixels' = s.px
                /\ parent' = s.par
                /\ next_label' = s.nl
                /\ united' = s.un
                /\ i' = i + 1
                /\ UNCHANGED << pc, oob >>
  /\ UNCHANGED << loopVars, caller, frameVars, blobs, result, ret >>

\* blob_info_t blobs[MAX_LABELS] = {0} (line 275).
second_pass_init ==
  /\ pc = "pass1"
  /\ i = width * height
  /\ blobs' = [k \in Labels |-> ZeroBlob]
  /\ i' = 0
  /\ pc' = "pass2"
  /\ UNCHANGED << loopVars, caller, frameVars, pixels, parent, united,
                  next_label, result, ret, oob >>

\* One iteration of the second pass (lines 276-294).
second_pass_step ==
  /\ pc = "pass2"
  /\ i < width * height
  /\ LET s == second_pass_pixel(pixels, parent, blobs, width, i)
     IN  IF s.bad
           THEN /\ oob' = TRUE
                /\ pc' = "crash"
                /\ UNCHANGED << pixels, parent, blobs, i >>
           ELSE /\ pixels' = s.px
                /\ parent' = s.par
                /\ blobs' = s.bl
                /\ i' = i + 1
                /\ UNCHANGED << pc, oob >>
  /\ UNCHANGED << loopVars, caller, frameVars, united, next_label, result, ret >>

\* Selection of the best blob and the result (lines 297-367).
select_best ==
  /\ pc = "pass2"
  /\ i = width * height
  /\ LET fin == Finalize(blobs, next_label, width, height)
     IN  /\ result' = fin.result
         /\ ret' = fin.ret
  /\ pc' = "done"
  /\ UNCHANGED << loopVars, caller, frameVars, pixels, parent, united,
                  next_label, i, blobs, oob >>

\* loop() of the first listing hands the frame back after the format
\* check, whichever branch ran (line 391).
ReturnsFrame1 == pc \in {"done", "skipped"}

\* loop() of the second listing hands the frame back inside the RGB565
\* branch only (line 819).
ReturnsFrame2 == pc = "done"

\* This end of the iteration calls esp_camera_fb_return.
ReturnsFrame ==
  caller = "loop" /\ (IF listing = 1 THEN ReturnsFrame1 ELSE ReturnsFrame2)

\* The call returns (in loop(): the end of the iteration, with
\* esp_camera_fb_return where the listing has it).  The frame and the
\* locals go out of scope; parent[] is a global and keeps its contents.
call_return ==
  /\ pc \in {"done", "skipped", "failed"}
  /\ fb_held' = IF ReturnsFrame THEN fb_held - 1 ELSE fb_held
  /\ listing' = listing
  /\ pc' = "idle"
  /\ caller' = "loop"
  /\ fmt' = "RGB565"
  /\ width' = 0
  /\ height' = 0
  /\ frame0' = EmptyBuf
  /\ pixels' = EmptyBuf
  /\ united' = {}
  /\ next_label' = 0
  /\ i' = 0
  /\ blobs' = NoBlobs
  /\ result' = ZeroResult
  /\ ret' = 0
  /\ UNCHANGED << parent, oob >>

Next ==
  \/ loop_capture
  \/ loop_capture_failed
  \/ direct_call
  \/ direct_call_empty
  \/ direct_call_null
  \/ fls_entry
  \/ first_pass_step
  \/ second_pass_init
  \/ second_pass_step
  \/ select_best
  \/ call_return

Spec == Init /\ [][Next]_vars

(* ------------------- loop() in both listings -------------------------- *)

\* The sketch of either listing starts; loop() is the only caller of
\* find_light_source.
InitLoop ==
  /\ listing \in {1, 2}
  /\ fb_held = 0
  /\ pc = "idle"
  /\ caller = "loop"
  /\ fmt = "RGB565"
  /\ width = 0
  /\ height = 0
  /\ frame0 = EmptyBuf
  /\ pixels = EmptyBuf
  /\ parent = [k \in Labels |-> 0]
  /\ united = {}
  /\ next_label = 0
  /\ i = 0
  /\ blobs = NoBlobs
  /\ result = ZeroResult
  /\ ret = 0
  /\ oob = FALSE

NextLoop ==
  \/ loop_capture
  \/ loop_capture_failed
  \/ fls_entry
  \/ first_pass_step
  \/ second_pass_init
  \/ second_pass_step
  \/ select_best
  \/ call_return

SpecLoop == InitLoop /\ [][NextLoop]_vars

(* ------------------- the union-find on its own ------------------------- *)

\* dsu_init followed by any sequence of dsu_unite and dsu_find calls on the
\* labels 1 .. MAX_LABELS-1.
InitDSU ==
  /\ listing = 1
  /\ fb_held = 0
  /\ pc = "dsu"
  /\ caller = "direct"
  /\ fmt = "RGB565"
  /\ width = 0
  /\ height = 0
  /\ frame0 = EmptyBuf
  /\ pixels = EmptyBuf
  /\ parent = dsu_init
  /\ united = {}
  /\ next_label = 0
  /\ i = 0
  /\ blobs = NoBlobs
  /\ result = ZeroResult
  /\ ret = 0
  /\ oob = FALSE

dsu_unite_call ==
  /\ pc = "dsu"
  /\ \E a, b \in Labels \ {0} :
       /\ parent' = dsu_unite(parent, a, b)
       /\ united' = IF a = b THEN united ELSE united \cup {{a, b}}
  /\ UNCHANGED << loopVars, pc, caller, frameVars, pixels, next_label, i,
                  blobs, result, ret, oob >>

\* ret holds the root dsu_find returned.
dsu_find_call ==
  /\ pc = "dsu"
  /\ \E k \in Labels \ {0} :
       LET f == dsu_find(parent, k)
       IN  /\ parent' = f[2]
           /\ ret' = f[1]
  /\ UNCHANGED << loopVars, pc, caller, frameVars, pixels, united,
                  next_label, i, blobs, result, oob >>

NextDSU == dsu_unite_call \/ dsu_find_call

SpecDSU == InitDSU /\ [][NextDSU]_vars

(* ------------------- the binarisation on its own ----------------------- *)

\* find_light_source entered with a 1 x 1 RGB565 frame holding any 16-bit
\* pixel value.
InitDecode ==
  /\ listing = 1
  /\ fb_held = 0
  /\ pc = "entry"
  /\ caller = "direct"
  /\ fmt = "RGB565"
  /\ width = 1
  /\ height = 1
  /\ \E v \in 0 .. 65535 :
       /\ frame0 = [k \in {0} |-> v]
       /\ pixels = [k \in {0} |-> v]
  /\ parent = [k \in Labels |-> 0]
  /\ united = {}
  /\ next_label = 0
  /\ i = 0
  /\ blobs = NoBlobs
  /\ result = StaleResult
  /\ ret = 0
  /\ oob = FALSE

NextDecode == fls_entry

SpecDecode == InitDecode /\ [][NextDecode]_vars

(* ------------------- frames with one filled square --------------------- *)

BrightValue == CHOOSE v \in Palette : Binarize(v) = FOREGROUND

DarkValue == CHOOSE v \in Palette : Binarize(v) = 0

\* The frame of width w and height h whose bright pixels are the filled
\* square of side k with upper left corner (x0, y0).
SquareFrame(w, h, k, x0, y0) ==
  [q \in 0 .. (w * h - 1) |->
     IF /\ x0 <= (q % w) /\ (q % w) < x0 + k
        /\ y0 <= (q \div w) /\ (q \div w) < y0 + k
       THEN BrightValue
       ELSE DarkValue]

\* find_light_source entered with an RGB565 frame whose only foreground is
\* a filled square of side 2 or more, at any position.
InitBlock ==
  /\ listing = 1
  /\ fb_held = 0
  /\ pc = "entry"
  /\ caller = "direct"
  /\ fmt = "RGB565"
  /\ \E w, h \in 2 .. MaxSide : \E k \in 2 .. Min2(w, h) :
       \E x0 \in 0 .. (w - k) : \E y0 \in 0 .. (h - k) :
         /\ width = w
         /\ height = h
         /\ frame0 = SquareFrame(w, h, k, x0, y0)
         /\ pixels = SquareFrame(w, h, k, x0, y0)
  /\ parent = [k \in Labels |-> 0]
  /\ united = {}
  /\ next_label = 0
  /\ i = 0
  /\ blobs = NoBlobs
  /\ result = StaleResult
  /\ ret = 0
  /\ oob = FALSE

NextBlock ==
  \/ fls_entry
  \/ first_pass_step
  \/ second_pass_init
  \/ second_pass_step
  \/ select_best

SpecBlock == InitBlock /\ [][NextBlock]_vars

(* ----------------------- reference definitions ------------------------- *)

NPixels == width * height

PixelIdx == 0 .. (NPixels - 1)

\* The fields of an RGB565 pixel as the camera stores it: the byte at the
\* lower address holds RRRRRGGG, the next one GGGBBBBB.
Red5(v) == (v % 256) \div 8

Green6(v) == (v % 8) * 8 + (v \div 8192)

Blue5(v) == (v \div 256) % 32

\* Each channel, scaled back to 8 bits, exceeds the brightness threshold.
Bright565(v) ==
  /\ Red5(v) * 8 > 230
  /\ Green6(v) * 4 > 230
  /\ Blue5(v) * 8 > 230

\* The pixels of the captured frame that are bright.
IsFg(k) == Bright565(frame0[k])

FgPixels == { k \in PixelIdx : IsFg(k) }

Abs(a) == IF a < 0 THEN -a ELSE a

\* Horizontal or vertical neighbours in a frame of width w.
Adjacent(a, b, w) ==
  \/ (a \div w) = (b \div w) /\ Abs((a % w) - (b % w)) = 1
  \/ (a % w) = (b % w) /\ Abs((a \div w) - (b \div w)) = 1

\* The pixels of S joined to a pixel of R by a path inside S.
RECURSIVE Reach(_, _, _)
Reach(R, S, w) ==
  LET more == { k \in S \ R : \E r \in R : Adjacent(k, r, w) }
  IN  IF more = {} THEN R ELSE Reach(R \cup more, S, w)

\* The connected foreground region of pixel k.
Region(k) == Reach({k}, FgPixels, width)

\* Foreground pixels with no foreground pixel above or to the left: each
\* needs a provisional label of its own.
NeededLabels ==
  Cardinality({ k \in FgPixels :
                  /\ ~((k \div width) > 0 /\ (k - width) \in FgPixels)
                  /\ ~((k % width) > 0 /\ (k - 1) \in FgPixels) })

AfterSecondPass ==
  \/ pc = "pass2" /\ i = NPixels
  \/ pc = "done" /\ fmt = "RGB565"

(* ------------------------------ claims --------------------------------- *)

\* C1: for a frame that needs fewer than MAX_LABELS provisional labels,
\* after the two passes every background pixel holds 0, every foreground
\* pixel holds a canonical label (a root of the forest), and two foreground
\* pixels hold the same label exactly when a path of horizontally or
\* vertically adjacent foreground pixels joins them.
C1_LabelsAreComponents ==
  (AfterSecondPass /\ NeededLabels < MAX_LABELS) =>
    /\ \A a \in PixelIdx \ FgPixels : pixels[a] = 0
    /\ \A a \in FgPixels :
         /\ pixels[a] \in Labels \ {0}
         /\ parent[pixels[a]] = pixels[a]
    /\ \A a \in FgPixels :
         { b \in FgPixels : pixels[b] = pixels[a] } = Region(a)

\* A frame within capacity with two regions, one of them merged from two
\* provisional labels.
C1_Witness ==
  /\ AfterSecondPass
  /\ NeededLabels < MAX_LABELS
  /\ united # {}
  /\ \E a, b \in FgPixels : b \notin Region(a)

\* The labels joined to a label of R by a chain of united pairs.
RECURSIVE ClassReach(_)
ClassReach(R) ==
  LET more == { k \in (Labels \ {0}) \ R : \E r \in R : {k, r} \in united }
  IN  IF more = {} THEN R ELSE ClassReach(R \cup more)

\* The equivalence class of label a generated by the united pairs.
ClassOf(a) == ClassReach({a})

SetMin(S) == CHOOSE m \in S : \A k \in S : m <= k

Root(a) == dsu_find(parent, a)[1]

\* C2: after dsu_init and any sequence of dsu_unite calls on the labels
\* 1 .. MAX_LABELS-1 (with dsu_find calls in between), dsu_find returns the
\* same root for the labels of one class, different roots for labels of
\* different classes, and the root is the smallest label of the class.
C2_RootIsClassMinimum ==
  pc = "dsu" =>
    \A a \in Labels \ {0} :
      /\ Root(a) = SetMin(ClassOf(a))
      /\ \A b \in Labels \ {0} : (Root(a) = Root(b)) <=> (b \in ClassOf(a))

\* A class of three or more labels beside another class, with a label whose
\* parent is not yet its root.
C2_Witness ==
  /\ pc = "dsu"
  /\ \E a, b \in Labels \ {0} :
       /\ Cardinality(ClassOf(a)) >= 3
       /\ b \notin ClassOf(a)
  /\ \E k \in Labels \ {0} : parent[parent[k]] # parent[k]

\* The pixels that hold label k.
RefPixels(k) == { q \in PixelIdx : pixels[q] = k }

RECURSIVE SumOf(_, _)
SumOf(f, S) ==
  IF S = {}
    THEN 0
    ELSE LET e == CHOOSE e \in S : TRUE
         IN  f[e] + SumOf(f, S \ {e})

SumX(S) == SumOf([q \in S |-> q % width], S)

SumY(S) == SumOf([q \in S |-> q \div width], S)

\* Circularity of the pixel set S is at least 1/2.  With the scatter matrix
\* V of the pixel coordinates (times N), trace T and determinant D, the
\* ratio r of its eigenvalues satisfies D / T^2 = r / (1 + r)^2, which grows
\* with r on [0, 1]; sqrt(r) >= 1/2 is r >= 1/4, that is D / T^2 >= 4/25.
RefCircular(S) ==
  LET N   == Cardinality(S)
      Sx  == SumX(S)
      Sy  == SumY(S)
      Vxx == N * SumOf([q \in S |-> (q % width) * (q % width)], S) - Sx * Sx
      Vyy == N * SumOf([q \in S |-> (q \div width) * (q \div width)], S) - Sy * Sy
      Vxy == N * SumOf([q \in S |-> (q % width) * (q \div width)], S) - Sx * Sy
      T   == Vxx + Vyy
      D   == Vxx * Vyy - Vxy * Vxy
  IN  T > 0 /\ 25 * D >= 4 * T * T

\* The canonical blobs that pass the size and the circularity filter.
RefAccepted ==
  { k \in Labels \ {0} :
      Cardinality(RefPixels(k)) >= 3 /\ RefCircular(RefPixels(k)) }

RefCount(k) == Cardinality(RefPixels(k))

\* The accepted blobs of the largest pixel count.
RefLargest ==
  { k \in RefAccepted : \A j \in RefAccepted : RefCount(j) <= RefCount(k) }

FoundRun == pc = "done" /\ fmt = "RGB565"

\* C3: among the blobs that pass both filters the one with the largest
\* pixel count is reported; among several of that count, the one with the
\* lowest canonical label, whose first pixel is the earliest in raster
\* order.
C3_LargestLowestLabelWins ==
  (FoundRun /\ RefAccepted # {}) =>
    LET win == SetMin(RefLargest)
        S   == RefPixels(win)
    IN  /\ result.pixel_count = RefCount(win)
        /\ result.x = Rat(2 * (SumX(S) \div RefCount(win)) - width, width)
        /\ result.y = Rat(2 * (SumY(S) \div RefCount(win)) - height, height)
        /\ \A k \in RefLargest \ {win} : SetMin(S) < SetMin(RefPixels(k))

\* Two accepted blobs of the same, largest size at different positions.
C3_Witness ==
  /\ FoundRun
  /\ \E j, k \in RefLargest :
       /\ j # k
       /\ SumX(RefPixels(j)) # SumX(RefPixels(k))

\* C4: the result is the sentinel (0, 0, 0) with return value -1 exactly
\* when no blob passes both filters, in particular when no pixel is bright;
\* otherwise the return value is 0 and pixel_count is the pixel count, at
\* least 3, of an accepted blob.
C4_SentinelIffNoneAccepted ==
  FoundRun =>
    /\ (RefAccepted = {}) <=> (result = ZeroResult /\ ret = -1)
    /\ (RefAccepted # {}) =>
         /\ ret = 0
         /\ result.pixel_count >= 3
         /\ \E k \in RefAccepted : result.pixel_count = RefCount(k)
    /\ (FgPixels = {}) => (result = ZeroResult /\ ret = -1)

\* A call whose result struct held an earlier value, on a frame whose only
\* blobs of three or more pixels fail the circularity filter.
C4_Witness ==
  /\ FoundRun
  /\ caller = "direct"
  /\ RefAccepted = {}
  /\ \E k \in Labels \ {0} : RefCount(k) >= 3
  /\ result = ZeroResult

InUnitRange(r) == r.den > 0 /\ -r.den <= r.num /\ r.num <= r.den

\* C5: for every RGB565 frame the result has -1 <= x <= 1, -1 <= y <= 1
\* and pixel_count >= 0.
C5_ResultInRange ==
  FoundRun =>
    /\ InUnitRange(result.x)
    /\ InUnitRange(result.y)
    /\ result.pixel_count >= 0

\* A blob found in the right half of the frame, on the top row.
C5_Witness ==
  /\ FoundRun
  /\ ret = 0
  /\ result.x.num > 0
  /\ result.y.num = -result.y.den

\* C6: in a frame that needs more than MAX_LABELS-1 provisional labels no
\* access to parent[] or blobs[] is out of bounds, and every connected
\* foreground region that ends up with a canonical label has the pixel
\* count and the coordinate sums of the whole region.
C6_OverflowKeepsRegionsExact ==
  /\ ~oob
  /\ (AfterSecondPass /\ NeededLabels >= MAX_LABELS) =>
       \A a \in PixelIdx :
         pixels[a] # 0 =>
           /\ blobs[pixels[a]].pixel_count = Cardinality(Region(a))
           /\ blobs[pixels[a]].sum_x = SumX(Region(a))
           /\ blobs[pixels[a]].sum_y = SumY(Region(a))

\* The result struct as the caller handed it to find_light_source.
ResultAtCall == IF caller = "loop" THEN ZeroResult ELSE StaleResult

\* C7: called with a frame that is not RGB565, find_light_source returns -1
\* at once: the frame buffer and the result struct are as they were, and
\* no binarisation, labelling or aggregation step has run.
C7_WrongFormatUntouched ==
  (pc = "done" /\ fmt # "RGB565") =>
    /\ ret = -1
    /\ pixels = frame0
    /\ result = ResultAtCall
    /\ next_label = 0
    /\ i = 0
    /\ united = {}
    /\ blobs = NoBlobs

\* A rejected frame with a bright pixel, which binarisation would rewrite,
\* and a result struct that is not the sentinel.
C7_Witness ==
  /\ pc = "done"
  /\ fmt # "RGB565"
  /\ ret = -1
  /\ \E k \in PixelIdx : Binarize(frame0[k]) = FOREGROUND
  /\ result # ZeroResult

\* What a run that found no qualifying blob leaves in the result struct.
NotFoundResult == Finalize([k \in Labels |-> ZeroBlob], 1, 1, 1).result

\* C8: what loop() observes lets it tell "could not run" from "ran and
\* found nothing": after an iteration whose frame has the wrong format the
\* result differs from the one a run without a qualifying blob leaves
\* (loop() discards the return value, which is -1 in both cases).
C8_LoopTellsOutcomesApart ==
  (caller = "loop" /\ pc = "skipped") => result # NotFoundResult

RECURSIVE RunFirstPass(_, _, _, _, _, _, _)
RunFirstPass(px, par, nl, un, w, k, n) ==
  IF k >= n
    THEN [px |-> px, par |-> par, nl |-> nl]
    ELSE LET s == first_pass_pixel(px, par, nl, un, w, k)
         IN  RunFirstPass(s.px, s.par, s.nl, s.un, w, k + 1, n)

RECURSIVE RunSecondPass(_, _, _, _, _, _)
RunSecondPass(px, par, bl, w, k, n) ==
  IF k >= n
    THEN bl
    ELSE LET s == second_pass_pixel(px, par, bl, w, k)
         IN  RunSecondPass(s.px, s.par, s.bl, w, k + 1, n)

\* The outcome of the pipeline on the captured frame when it starts from
\* pristine working state: the identity forest, next_label = 1, zeroed blobs.
FreshOutcome ==
  LET p1 == RunFirstPass([k \in PixelIdx |-> Binarize(frame0[k])],
                         [k \in Labels |-> k], 1, {}, width, 0, NPixels)
      bl == RunSecondPass(p1.px, p1.par, [k \in Labels |-> ZeroBlob],
                          width, 0, NPixels)
  IN  Finalize(bl, p1.nl, width, height)

\* C9: whatever the earlier invocations left behind, the result of a run is
\* the one the captured frame gives from pristine working state; the forest
\* and next_label are reinitialised before the first pass and blobs[] before
\* the second.
C9_ResultDependsOnFrameOnly ==
  /\ FoundRun => (result = FreshOutcome.result /\ ret = FreshOutcome.ret)
  /\ (pc = "pass1" /\ i = 0) =>
       (parent = [k \in Labels |-> k] /\ next_label = 1)
  /\ (pc = "pass2" /\ i = 0) => blobs = [k \in Labels |-> ZeroBlob]

\* A call on a frame with two blobs of three or more pixels, entered while
\* parent[] still holds the merged labels 1 and 2 of an earlier frame.
C9_Witness ==
  /\ pc = "entry"
  /\ fmt = "RGB565"
  /\ parent[2] = 1
  /\ parent[MAX_LABELS - 1] = MAX_LABELS - 1
  /\ \E a, b \in FgPixels :
       /\ b \notin Region(a)
       /\ Cardinality(Region(a)) >= 3
       /\ Cardinality(Region(b)) >= 3

\* C10: the binarisation writes 0xFFFF exactly when each of the three
\* channels exceeds 230, red being the 5-bit field times 8, green the 6-bit
\* field times 4 and blue the 5-bit field times 8, the three fields being
\* disjoint bits of the pixel; every other pixel becomes 0.
C10_BinarizeByOwnChannels ==
  pc = "pass1" =>
    LET v == frame0[0]
    IN  /\ Red5(v) * 8 + (Green6(v) \div 8)
             + 256 * (Blue5(v) + 32 * (Green6(v) % 8)) = v
        /\ channel_r(v) = Red5(v) * 8
        /\ channel_g(v) = Green6(v) * 4
        /\ channel_b(v) = Blue5(v) * 8
        /\ pixels[0] = IF Bright565(v) THEN 65535 ELSE 0

\* A bright pixel other than 0xFFFF that became foreground.
C10_Witness ==
  /\ pc = "pass1"
  /\ frame0[0] # 65535
  /\ Green6(frame0[0]) < 63
  /\ pixels[0] = 65535

\* The pixels of S all lie in one row or all in one column.
IsLine(S) ==
  \/ \A a, b \in S : (a \div width) = (b \div width)
  \/ \A a, b \in S : (a % width) = (b % width)

\* C11: a blob whose pixels all lie in one row or all in one column is not
\* accepted by the selector, whatever its length, and a frame whose
\* foreground regions are all such lines ends with the not-found result
\* and return value -1.
C11_LinesAreRejected ==
  /\ AfterSecondPass =>
       \A k \in Labels \ {0} :
         (RefCount(k) >= 1 /\ IsLine(RefPixels(k))) => ~Accepted(blobs[k])
  /\ (FoundRun /\ \A a \in FgPixels : IsLine(Region(a))) =>
       (result = ZeroResult /\ ret = -1)

\* A run on a frame whose only blob is a line of ten or more pixels, with
\* a result struct that held an earlier value.
C11_Witness ==
  /\ FoundRun
  /\ caller = "direct"
  /\ \E k \in Labels \ {0} :
       /\ RefCount(k) >= 10
       /\ RefCount(k) = Cardinality(FgPixels)
       /\ IsLine(RefPixels(k))
       /\ blobs[k].pixel_count = RefCount(k)
  /\ result = ZeroResult

FgCols == { a % width : a \in FgPixels }

FgRows == { a \div width : a \in FgPixels }

\* The foreground of the captured frame is one filled square of side >= 2.
OnlyFilledSquare ==
  /\ Cardinality(FgCols) >= 2
  /\ Cardinality(FgCols) = Cardinality(FgRows)
  /\ \A c \in SetMin(FgCols) .. (SetMin(FgCols) + Cardinality(FgCols) - 1) :
       \A r \in SetMin(FgRows) .. (SetMin(FgRows) + Cardinality(FgRows) - 1) :
         (r * width + c) \in FgPixels
  /\ Cardinality(FgPixels) = Cardinality(FgCols) * Cardinality(FgCols)

\* C12: a frame whose only foreground is a filled square of side k >= 2
\* with upper left corner (x0, y0) gives return value 0, pixel_count k*k
\* and the truncated centroid (x0 + (k-1) div 2, y0 + (k-1) div 2),
\* normalised; the square passes the shape filter.
C12_FilledSquareFound ==
  (FgPixels # {} /\ OnlyFilledSquare) =>
    LET k  == Cardinality(FgCols)
        cx == SetMin(FgCols) + ((k - 1) \div 2)
        cy == SetMin(FgRows) + ((k - 1) \div 2)
    IN  /\ AfterSecondPass => Accepted(blobs[1])
        /\ FoundRun =>
             /\ ret = 0
             /\ result.pixel_count = k * k
             /\ result.x = Rat(2 * cx - width, width)
             /\ result.y = Rat(2 * cy - height, height)

\* A 4 x 4 block found away from the upper left corner of a larger frame.
C12_Witness ==
  /\ FoundRun
  /\ OnlyFilledSquare
  /\ Cardinality(FgCols) = 4
  /\ SetMin(FgCols) > 0
  /\ SetMin(FgRows) > 0
  /\ result.pixel_count = 16

\* Circularity thresholds 0, 1/4, 1/2, 3/4 and 1 as <<numerator, denominator>>.
Thresholds == { << 0, 1 >>, << 1, 4 >>, << 1, 2 >>, << 3, 4 >>, << 1, 1 >> }

\* t1 <= t2 for two thresholds.
ThresholdLeq(t1, t2) == t1[1] * t2[2] <= t2[1] * t1[2]

\* The canonical blobs the selector accepts with threshold t.
AcceptedSet(t) == { k \in Labels \ {0} : AcceptedAt(blobs[k], t) }

\* C13: for the blobs of one frame and two circularity thresholds
\* t1 <= t2, every blob accepted with t2 is accepted with t1; with the
\* threshold 1/2 the accepted blobs are those the sketch accepts.
C13_ThresholdMonotone ==
  AfterSecondPass =>
    /\ \A t1, t2 \in Thresholds :
         ThresholdLeq(t1, t2) => AcceptedSet(t2) \subseteq AcceptedSet(t1)
    /\ AcceptedSet(<< 1, 2 >>) = { k \in Labels \ {0} : Accepted(blobs[k]) }

\* A frame with a blob accepted at 1/2 but not at 3/4 beside a blob that
\* is accepted at every threshold.
C13_Witness ==
  /\ AfterSecondPass
  /\ AcceptedSet(<< 1, 2 >>) \ AcceptedSet(<< 3, 4 >>) # {}
  /\ AcceptedSet(<< 1, 1 >>) # {}

\* C14: find_light_source called with a null frame or with a frame of no
\* pixels fails at once: it does not fault, it returns -1, the result
\* struct keeps the caller's value and no pass has been initialised.
C14_NullOrEmptyRejected ==
  /\ pc # "fault"
  /\ (pc = "done" /\ fmt = "RGB565" /\ NPixels = 0) =>
       /\ ret = -1
       /\ result = ResultAtCall
       /\ next_label = 0
       /\ blobs = NoBlobs

\* The reported coordinate r (a rational over the frame size) is the
\* normalised floor of sum / N, and the exact normalised centroid
\* 2 * sum / (N * size) - 1 exceeds it by less than 2 / size, one pixel.
WithinOnePixel(r, sum, N, size) ==
  /\ r = Rat(2 * (sum \div N) - size, size)
  /\ 0 <= 2 * sum - N * size - N * r.num
  /\ 2 * sum - N * size - N * r.num < 2 * N

\* C15: the reported x and y are the normalised truncated centroid of the
\* winning blob, x = 2 * floor(sum_x / N) / width - 1 and likewise y, and
\* each is at most the exact normalised centroid and less than one pixel
\* (2 / width, 2 / height) below it, at every frame size.
C15_TruncatedCentroidWithinOnePixel ==
  (FoundRun /\ ret = 0) =>
    LET S == RefPixels(SetMin(RefLargest))
        N == Cardinality(S)
    IN  /\ WithinOnePixel(result.x, SumX(S), N, width)
        /\ WithinOnePixel(result.y, SumY(S), N, height)

\* A winning blob whose exact centroid is off the pixel grid in both
\* coordinates, in a frame that is not square.
C15_Witness ==
  /\ FoundRun
  /\ ret = 0
  /\ width # height
  /\ LET S == RefPixels(SetMin(RefLargest))
     IN  /\ SumX(S) % Cardinality(S) # 0
         /\ SumY(S) % Cardinality(S) # 0

\* The label reached from k after n steps along the parent pointers of p.
RECURSIVE Follow(_, _, _)
Follow(p, k, n) == IF n = 0 THEN k ELSE Follow(p, p[k], n - 1)

\* Where the parent pointers of p lead from k: a chain without a cycle has
\* fewer than MAX_LABELS links.
Rep(p, k) == Follow(p, k, MAX_LABELS)

\* No parent pointer goes up, label 0 is its own parent, and every chain
\* of parent pointers ends at a root, which is the smallest label of the
\* class of its starting label.
ForestOk ==
  /\ parent \in [Labels -> Labels]
  /\ parent[0] = 0
  /\ \A k \in Labels :
       /\ parent[k] <= k
       /\ parent[Rep(parent, k)] = Rep(parent, k)
  /\ \A k \in Labels \ {0} : Rep(parent, k) = SetMin(ClassOf(k))

\* A step that unites nothing (a dsu_find call) leaves every label with
\* the representative it had, and returns the representative of some label.
FindKeepsRepresentatives ==
  united' = united =>
    /\ \A k \in Labels : Rep(parent', k) = Rep(parent, k)
    /\ ret' # ret => \E k \in Labels \ {0} : ret' = Rep(parent, k)

\* C16: in every state reached from dsu_init by dsu_unite and dsu_find
\* calls the forest has parent[k] <= k, parent[0] = 0, and the parent
\* pointers lead from every label to a root that is the representative of
\* its class, so dsu_find terminates; no dsu_find call, with its path
\* compression, changes the representative of any label.
C16_ForestAcyclicAndStable ==
  [](pc = "dsu" => ForestOk) /\ [][FindKeepsRepresentatives]_vars

\* A forest that path compression has flattened in part: a label hangs
\* directly under the root it was never united with, and still has a
\* child of its own.
C16_Witness ==
  /\ pc = "dsu"
  /\ \E k, j \in Labels \ {0} :
       /\ parent[k] # k
       /\ parent[parent[k]] = parent[k]
       /\ {k, parent[k]} \notin united
       /\ j # k
       /\ parent[j] = k
  /\ ret >= 1

\* The blob record of label r computed from the pixels that hold r.
RefBlob(r) ==
  LET S == RefPixels(r)
  IN  [id          |-> r,
       pixel_count |-> Cardinality(S),
       sum_x       |-> SumX(S),
       sum_y       |-> SumY(S),
       sum_x2      |-> SumOf([q \in S |-> (q % width) * (q % width)], S),
       sum_y2      |-> SumOf([q \in S |-> (q \div width) * (q \div width)], S),
       sum_xy      |-> SumOf([q \in S |-> (q % width) * (q \div width)], S)]

\* C17: after the second pass every nonzero pixel holds a root r of the
\* forest, blobs[r] has id r and the pixel count and the sums of x, y,
\* x*x, y*y and x*y over exactly the pixels that hold r, and blobs[k] is
\* all zero for every k no pixel holds.
C17_BlobsMatchPixels ==
  AfterSecondPass =>
    /\ \A q \in PixelIdx :
         pixels[q] # 0 =>
           /\ pixels[q] \in Labels
           /\ parent[pixels[q]] = pixels[q]
    /\ \A k \in Labels :
         blobs[k] = IF k # 0 /\ RefPixels(k) # {} THEN RefBlob(k) ELSE ZeroBlob

\* Two blobs after the second pass, one of them away from row 0 and
\* column 0 and merged from two provisional labels, the higher of which
\* is left without a record.
C17_Witness ==
  /\ AfterSecondPass
  /\ \E r, k \in Labels \ {0} :
       /\ r < k
       /\ k < next_label
       /\ {r, k} \in united
       /\ RefPixels(k) = {}
       /\ blobs[k] = ZeroBlob
       /\ blobs[r].sum_xy > 0
       /\ \E j \in Labels \ {0, r} : blobs[j].pixel_count > 0

\* During the first pass next_label stays within 1 .. MAX_LABELS, the
\* pixels already scanned hold 0 or a label handed out so far, and the
\* pixels still to be scanned hold what the binarisation wrote.
FirstPassOk ==
  /\ 1 <= next_label
  /\ next_label <= MAX_LABELS
  /\ \A q \in PixelIdx :
       IF q < i
         THEN pixels[q] \in 0 .. (next_label - 1)
         ELSE pixels[q] = (IF IsFg(q) THEN FOREGROUND ELSE 0)

\* A step of the first pass at a foreground pixel without a labelled top
\* or left neighbour, taken when the table is full, writes 0 and leaves
\* next_label as it is.
FullTableDropsPixel ==
  ( /\ pc = "pass1"
    /\ i' = i + 1
    /\ pixels[i] = FOREGROUND
    /\ top_label(pixels, width, i) = 0
    /\ left_label(pixels, width, i) = 0
    /\ next_label = MAX_LABELS )
  => (pixels'[i] = 0 /\ next_label' = next_label)

\* C18: throughout the first pass 1 <= next_label <= MAX_LABELS and every
\* scanned pixel holds 0 or a label in 1 .. next_label-1, never 0xFFFF and
\* never MAX_LABELS or more; a foreground pixel without a labelled top or
\* left neighbour that is reached with next_label = MAX_LABELS becomes 0
\* and next_label is not incremented.
C18_LabelsStayInTable ==
  [](pc = "pass1" => FirstPassOk) /\ [][FullTableDropsPixel]_vars

\* The first pass has used up the table and dropped a bright pixel, and
\* has pixels left to scan.
C18_Witness ==
  /\ pc = "pass1"
  /\ next_label = MAX_LABELS
  /\ i < NPixels
  /\ \E q \in PixelIdx : q < i /\ IsFg(q) /\ pixels[q] = 0

\* C19: in either listing, between two iterations of loop() no frame
\* buffer is outstanding: the buffer an iteration got from
\* esp_camera_fb_get has been handed back, once, before the next capture,
\* whatever its format, so the single buffer of the driver is free again.
C19_FrameBufferAlwaysReturned ==
  /\ fb_held \in 0 .. fb_count
  /\ (pc = "idle" /\ caller = "loop") => fb_held = 0

=============================================================================
